---------------------------- MODULE Spec2Model ----------------------------
(***************************************************************************)
(* A model of URLLoaderImpl::HTTPClient<T> (src/http_client.h): one        *)
(* request over one connection, plain or TLS.  Every asynchronous          *)
(* operation the client issues is an element of `pending`; each completion *)
(* handler is an action that removes its operation and does what the       *)
(* handler's code does.  The two body-copy loops call out to a sink whose  *)
(* answer differs per iteration, so the position inside the loop is state  *)
(* (`pc`), one action per iteration.                                       *)
(*                                                                         *)
(* Texts that the code parses are sequences of one-character strings.      *)
(* Body bytes are numbered in the order the socket delivers them: the      *)
(* i-th body byte received after the header terminator is the number i.    *)
(***************************************************************************)
EXTENDS Integers, Sequences, FiniteSets, TLC

VARIABLES
  flavor,              \* "ssl" | "nonssl": the template argument T
  buffer_response,     \* loader_->buffer_response_
  cert_hack,           \* build flag NETWORK_SERVICE_HTTPS_CERT_HACK
  disable_verify,      \* build flag NETWORK_SERVICE_DISABLE_CERT_VERIFY
  req,                 \* <<the arguments of the last CreateRequest>> until Start
  create_result,       \* what CreateRequest returned, "none" before the call
  readers_drained,     \* number of ReadAll calls CreateRequest made, until
                       \* Start
  request_header_buf,  \* request_header_buf_: the unsent header lines
  request_body_buf,    \* request_body_buf_: the unsent body bytes
  request_bufs,        \* request_bufs_: the buffers offered to async_write
  started,             \* Start was called
  pending,             \* asynchronous operations in flight
  verify_mode,         \* the socket's verify mode, "unset" until OnResolve
  chain_valid,         \* <<the preverified the verify callback was given>>
  http_version,        \* http_version_
  status_code,         \* status_code_
  status_message,      \* status_message_
  first_line,          \* the line OnReadStatusLine parsed, <<>> before
  redirect_location,   \* redirect_location_
  redirected,          \* OnReadHeaders took the 301/302 branch
  block,               \* the header block OnReadHeaders parsed
  response_buf,        \* response_buf_: unconsumed body bytes
  received,            \* number of body bytes the socket has delivered
  response_,           \* response_: <<the envelope kept for buffered delivery>>
  response_body_stream,\* response_body_stream_: "none" | "open" | "reset"
  pc,                  \* position inside a handler: "idle" or inside a copy loop
  size,                \* the local `size` of the running copy loop
  done,                \* the local `done` of the running copy loop
  sink,                \* bytes the consumer end of the stream pair was given
  vmo,                 \* the buffered destination: [exists, size, data]
  blocked,             \* the chunk the sink answered would-block to, while the
                       \* handler waits and until its next pass; else <<>>
  peer_closed,         \* the sink answered MX_ERR_PEER_CLOSED to a write
  responses,           \* envelopes passed to loader_->SendResponse
  errors,              \* codes passed to loader_->SendError
  sink_at_response,    \* length of `sink` when SendResponse was last called
  failure,             \* the failures that occurred, by stage
  body_eof,            \* the body read completed with asio::error::eof
  crashed              \* the process ran into undefined behaviour and died

vars == <<flavor, buffer_response, cert_hack, disable_verify, req,
          create_result, readers_drained, request_header_buf,
          request_body_buf, request_bufs, started, pending,
          verify_mode, chain_valid, http_version, status_code, status_message,
          first_line,
          redirect_location, redirected, block, response_buf, received,
          response_, response_body_stream, pc, size, done, sink, vmo,
          blocked, peer_closed, responses, errors, sink_at_response,
          failure, body_eof, crashed>>

\* The groups of variables a handler leaves alone.
buildVars == <<flavor, buffer_response, cert_hack, disable_verify>>
tlsVars == <<verify_mode, chain_valid>>
createVars == <<req, create_result, readers_drained>>
requestVars == <<request_header_buf, request_body_buf, request_bufs>>
statusVars == <<http_version, status_code, status_message, first_line>>
redirectVars == <<redirect_location, redirected>>
loopVars == <<pc, size, done>>
sinkVars == <<sink, blocked, peer_closed>>
bodyVars == <<response_buf, received, response_, response_body_stream, vmo,
              body_eof>>
callbackVars == <<responses, errors, sink_at_response>>

-----------------------------------------------------------------------------
(* Bounds of the model. *)

\* Most body bytes the socket delivers after the header terminator.
MaxBody == 3
\* sizeof(TransferBuffer), 64 KiB in the source, scaled to the body bound.
ChunkSize == 2

Min(a, b) == IF a < b THEN a ELSE b

\* The bytes from..to of the numbered body.
Bytes(from, to) == [i \in 1..(to - from + 1) |-> from + i - 1]

Drop(s, n) == SubSeq(s, n + 1, Len(s))
\* The first n elements of s, or all of s when it has fewer.
Take(s, n) == SubSeq(s, 1, Min(n, Len(s)))

\* All sequences over S of length exactly n.
SeqsOfLen(S, n) == [1..n -> S]

-----------------------------------------------------------------------------
(* Result and error codes. *)

MX_OK == "MX_OK"
MX_ERR_INVALID_ARGS == "MX_ERR_INVALID_ARGS"
MX_ERR_IO == "MX_ERR_IO"
MX_ERR_SHOULD_WAIT == "MX_ERR_SHOULD_WAIT"
MX_ERR_PEER_CLOSED == "MX_ERR_PEER_CLOSED"
MX_ERR_BAD_STATE == "MX_ERR_BAD_STATE"
MX_ERR_CANCELED == "MX_ERR_CANCELED"

NETWORK_ERR_FAILED == "NETWORK_ERR_FAILED"
NETWORK_ERR_NAME_NOT_RESOLVED == "NETWORK_ERR_NAME_NOT_RESOLVED"
NETWORK_ERR_CONNECTION_FAILED == "NETWORK_ERR_CONNECTION_FAILED"
NETWORK_ERR_SSL_HANDSHAKE_NOT_COMPLETED ==
  "NETWORK_ERR_SSL_HANDSHAKE_NOT_COMPLETED"
NETWORK_ERR_INVALID_RESPONSE == "NETWORK_ERR_INVALID_RESPONSE"

\* asio::error_code values a completion handler is called with.
NoError == "ok"
Eof == "asio::error::eof"
StreamTruncated == "asio::ssl::error::stream_truncated"
OtherError == "asio::error::connection_reset"

-----------------------------------------------------------------------------
(* The callbacks of the collaborator. *)

SendResponse(response) ==
  /\ responses' = Append(responses, response)
  /\ sink_at_response' = Len(sink)
  /\ errors' = errors

SendError(error_code) ==
  /\ errors' = Append(errors, error_code)
  /\ UNCHANGED <<responses, sink_at_response>>

-----------------------------------------------------------------------------
(* Request Builder. *)

ALLOWED_METHODS ==
  {"GET", "HEAD", "POST", "PUT", "DELETE", "TRACE", "CONNECT", "PATCH"}

IsMethodAllowed_CaseInsensitive(method) ==
  method \in ALLOWED_METHODS \cup {"get", "Get", "post"}

IsMethodAllowed(method) == method \in ALLOWED_METHODS

\* fxl::ToLowerASCII on one character, over the letters header names use.
ToLowerASCII(c) ==
  CASE c = "A" -> "a" [] c = "C" -> "c" [] c = "E" -> "e" [] c = "P" -> "p"
    [] c = "T" -> "t" [] c = "X" -> "x" [] OTHER -> c

EqualsCaseInsensitiveASCII(a, b) ==
  /\ Len(a) = Len(b)
  /\ \A i \in 1..Len(a) : ToLowerASCII(a[i]) = ToLowerASCII(b[i])

ACCEPT_LOWER == <<"a", "c", "c", "e", "p", "t">>

\* The methods a caller may pass: allowed ones, and strings that differ from
\* an allowed one in case, by a suffix, or altogether.
Methods == {"GET", "POST", "get", "Get", "post", "GETX", "OPTIONS", ""}

\* The extra-header maps a caller may pass, as std::map iterates them (in
\* key order); a header is <<name, value>>.
ExtraHeaderMaps ==
  { <<>>,
    << <<<<"A","c","c","e","p","t">>, "text/html">> >>,
    << <<<<"A","C","C","E","P","T">>, "a/b">>, <<<<"X">>, "1">> >>,
    << <<<<"A","c","c","e","p","t">>, "a/b">>,
       <<<<"a","c","c","e","p","t">>, "c/d">> >>,
    << <<<<"A","c","c","e","p","t","-","X">>, "1">> >>,
    << <<<<"X">>, "1">> >> }

\* The upload readers a caller may pass: each is the bytes it holds and
\* whether its ReadAll succeeds.
ReaderLists ==
  { <<>>,
    << [data |-> <<1>>, ok |-> TRUE] >>,
    << [data |-> <<1>>, ok |-> TRUE], [data |-> <<2>>, ok |-> TRUE] >>,
    << [data |-> <<>>, ok |-> TRUE] >>,
    << [data |-> <<1>>, ok |-> TRUE], [data |-> <<2>>, ok |-> FALSE] >> }

\* One line of the request header block.  `kind` is "request" (the request
\* line: `text` is the method, `target` the path), "header" (`name`: `text`,
\* or `name`: `number` for Content-Length) or "blank" (the terminator).
Line(kind, name, text, target, number) ==
  [kind |-> kind, name |-> name, text |-> text, target |-> target,
   number |-> number]

HOST == <<"H", "o", "s", "t">>
CONNECTION == <<"C", "o", "n", "n", "e", "c", "t", "i", "o", "n">>
ACCEPT == <<"A", "c", "c", "e", "p", "t">>
CONTENT_LENGTH ==
  <<"C", "o", "n", "t", "e", "n", "t", "-", "L", "e", "n", "g", "t", "h">>

\* The extra-header loop: the lines written.
RECURSIVE ExtraHeaderLines(_)
ExtraHeaderLines(extra_headers) ==
  IF extra_headers = <<>> THEN <<>>
  ELSE <<Line("header", Head(extra_headers)[1], Head(extra_headers)[2],
              "", 0)>>
       \o ExtraHeaderLines(Tail(extra_headers))

\* has_accept computed with a comparison that respects case.
HasAccept_CaseSensitive(extra_headers) ==
  \E i \in 1..Len(extra_headers) : extra_headers[i][1] = ACCEPT

\* The extra-header loop: has_accept.
HasAccept(extra_headers) ==
  \E i \in 1..Len(extra_headers) :
    EqualsCaseInsensitiveASCII(extra_headers[i][1], ACCEPT_LOWER)

\* The reader loop: the index of the first reader whose ReadAll fails, or 0.
FirstFailing(readers) ==
  IF \E i \in 1..Len(readers) : ~readers[i].ok
  THEN CHOOSE i \in 1..Len(readers) :
         /\ ~readers[i].ok
         /\ \A j \in 1..(i - 1) : readers[j].ok
  ELSE 0

\* The bytes the readers 1..n wrote to request_body_stream.
RECURSIVE Drained(_, _)
Drained(readers, n) ==
  IF n = 0 THEN <<>> ELSE Drained(readers, n - 1) \o readers[n].data

\* The header lines with the synthesized Accept line written ahead of the
\* extra headers.
HeadLines_AcceptFirst(server, path, method, extra_headers) ==
  << Line("request", <<>>, method, path, 0),
     Line("header", HOST, server, "", 0),
     Line("header", CONNECTION, "close", "", 0) >>
  \o (IF ~HasAccept(extra_headers)
      THEN <<Line("header", ACCEPT, "*/*", "", 0)>> ELSE <<>>)
  \o ExtraHeaderLines(extra_headers)

\* The header lines written before the body is drained.
HeadLines(server, path, method, extra_headers) ==
  << Line("request", <<>>, method, path, 0),
     Line("header", HOST, server, "", 0),
     Line("header", CONNECTION, "close", "", 0) >>
  \o ExtraHeaderLines(extra_headers)
  \o (IF ~HasAccept(extra_headers)
      THEN <<Line("header", ACCEPT, "*/*", "", 0)>> ELSE <<>>)

CreateRequest(server, path, method, extra_headers, element_readers) ==
  /\ create_result = "none"
  /\ req' = <<[server |-> server, path |-> path, method |-> method,
              extra_headers |-> extra_headers,
              readers |-> element_readers]>>
  /\ IF ~IsMethodAllowed(method)
     THEN /\ create_result' = MX_ERR_INVALID_ARGS
          /\ UNCHANGED <<readers_drained, requestVars>>
     ELSE LET failing == FirstFailing(element_readers)
              head == HeadLines(server, path, method, extra_headers)
          IN IF failing # 0
             THEN \* the failing reader may have written part of its data
                  /\ create_result' = MX_ERR_IO
                  /\ readers_drained' = failing
                  /\ request_header_buf' = head
                  /\ \E n \in 0..Len(element_readers[failing].data) :
                       request_body_buf' =
                         Drained(element_readers, failing - 1)
                         \o Take(element_readers[failing].data, n)
                  /\ UNCHANGED request_bufs
             ELSE LET body == Drained(element_readers, Len(element_readers))
                      content_length == Len(body)
                  IN /\ create_result' = MX_OK
                     /\ readers_drained' = Len(element_readers)
                     /\ request_header_buf' =
                          head
                          \o (IF content_length > 0
                              THEN <<Line("header", CONTENT_LENGTH, "",
                                          "", content_length)>>
                              ELSE <<>>)
                          \o <<Line("blank", <<>>, "", "", 0)>>
                     /\ request_body_buf' = body
                     /\ request_bufs' = <<"header", "body">>
  /\ UNCHANGED <<buildVars, started, pending, tlsVars, statusVars,
                 redirectVars, block, bodyVars, loopVars, sinkVars,
                 callbackVars, failure, crashed>>

-----------------------------------------------------------------------------
(* Connection State Machine: resolve, connect, handshake, write. *)

\* A handler that reports an error and issues nothing.
Fail(stage, error_code) ==
  /\ SendError(error_code)
  /\ failure' = failure \cup {stage}

\* Start issuing the connect along with the resolve.
Start_ResolveAndConnect ==
  /\ create_result = MX_OK
  /\ ~started
  /\ started' = TRUE
  /\ pending' = pending \cup {"resolve", "connect"}
  /\ req' = <<>>
  /\ readers_drained' = 0
  /\ UNCHANGED <<buildVars, create_result, requestVars, tlsVars, statusVars,
                 redirectVars, block, bodyVars, loopVars, sinkVars,
                 callbackVars, failure, crashed>>

\* The loader starts a request only after CreateRequest has built it.  What
\* is recorded of the call of CreateRequest is dropped here.
Start ==
  /\ create_result = MX_OK
  /\ ~started
  /\ started' = TRUE
  /\ pending' = pending \cup {"resolve"}
  /\ req' = <<>>
  /\ readers_drained' = 0
  /\ UNCHANGED <<buildVars, create_result, requestVars, tlsVars, statusVars,
                 redirectVars, block, bodyVars, loopVars, sinkVars,
                 callbackVars, failure, crashed>>

\* HTTPClient<ssl_socket_t>::OnResolve
OnResolve_ssl(err) ==
  /\ flavor = "ssl"
  /\ "resolve" \in pending
  /\ IF err = NoError
     THEN /\ verify_mode' = IF disable_verify THEN "verify_none"
                            ELSE "verify_peer"
          /\ pending' = (pending \ {"resolve"}) \cup {"connect"}
          /\ UNCHANGED <<callbackVars, failure>>
     ELSE /\ Fail("resolve", NETWORK_ERR_NAME_NOT_RESOLVED)
          /\ pending' = pending \ {"resolve"}
          /\ UNCHANGED verify_mode
  /\ UNCHANGED <<buildVars, createVars, requestVars, started, chain_valid,
                 statusVars, redirectVars, block, bodyVars, loopVars,
                 sinkVars, crashed>>

\* HTTPClient<nonssl_socket_t>::OnResolve
OnResolve_nonssl(err) ==
  /\ flavor = "nonssl"
  /\ "resolve" \in pending
  /\ IF err = NoError
     THEN /\ pending' = (pending \ {"resolve"}) \cup {"connect"}
          /\ UNCHANGED <<callbackVars, failure>>
     ELSE /\ Fail("resolve", NETWORK_ERR_NAME_NOT_RESOLVED)
          /\ pending' = pending \ {"resolve"}
  /\ UNCHANGED <<buildVars, createVars, requestVars, started, tlsVars,
                 statusVars, redirectVars, block, bodyVars, loopVars,
                 sinkVars, crashed>>

\* The verify callback accepting every certificate.
OnVerifyCertificate_AcceptsAll(preverified) == TRUE

OnVerifyCertificate(preverified) ==
  IF cert_hack THEN TRUE ELSE preverified

\* OnConnect of the TLS flavor writing the request without a handshake.
OnConnect_ssl_SkipsHandshake(err) ==
  /\ flavor = "ssl"
  /\ "connect" \in pending
  /\ IF err = NoError
     THEN /\ pending' = (pending \ {"connect"}) \cup {"write"}
          /\ UNCHANGED <<callbackVars, failure>>
     ELSE /\ Fail("connect", NETWORK_ERR_CONNECTION_FAILED)
          /\ pending' = pending \ {"connect"}
  /\ UNCHANGED <<buildVars, createVars, requestVars, started, tlsVars,
                 statusVars, redirectVars, block, bodyVars, loopVars,
                 sinkVars, crashed>>

\* HTTPClient<ssl_socket_t>::OnConnect
OnConnect_ssl(err) ==
  /\ flavor = "ssl"
  /\ "connect" \in pending
  /\ IF err = NoError
     THEN /\ pending' = (pending \ {"connect"}) \cup {"handshake"}
          /\ UNCHANGED <<callbackVars, failure>>
     ELSE /\ Fail("connect", NETWORK_ERR_CONNECTION_FAILED)
          /\ pending' = pending \ {"connect"}
  /\ UNCHANGED <<buildVars, createVars, requestVars, started, tlsVars,
                 statusVars, redirectVars, block, bodyVars, loopVars,
                 sinkVars, crashed>>

\* HTTPClient<nonssl_socket_t>::OnConnect
OnConnect_nonssl(err) ==
  /\ flavor = "nonssl"
  /\ "connect" \in pending
  /\ IF err = NoError
     THEN /\ pending' = (pending \ {"connect"}) \cup {"write"}
          /\ UNCHANGED <<callbackVars, failure>>
     ELSE /\ Fail("connect", NETWORK_ERR_CONNECTION_FAILED)
          /\ pending' = pending \ {"connect"}
  /\ UNCHANGED <<buildVars, createVars, requestVars, started, tlsVars,
                 statusVars, redirectVars, block, bodyVars, loopVars,
                 sinkVars, crashed>>

\* The error code async_handshake completes with: the handshake fails when
\* the transport fails, or when the peer is verified (verify_peer) and the
\* verify callback rejects the certificate.
HandshakeResult(transport_ok, preverified) ==
  IF transport_ok
     /\ (verify_mode = "verify_none" \/ OnVerifyCertificate(preverified))
  THEN NoError ELSE OtherError

\* The handler; what async_handshake did before it is AsyncHandshake.
OnHandShake(err) ==
  /\ "handshake" \in pending
  /\ IF err = NoError
     THEN /\ pending' = (pending \ {"handshake"}) \cup {"write"}
          /\ UNCHANGED <<callbackVars, failure>>
     ELSE /\ Fail("handshake", NETWORK_ERR_SSL_HANDSHAKE_NOT_COMPLETED)
          /\ pending' = pending \ {"handshake"}
  /\ UNCHANGED <<buildVars, createVars, requestVars, started, verify_mode,
                 statusVars, redirectVars, block, bodyVars, loopVars,
                 sinkVars, crashed>>

\* async_handshake runs to its completion handler.  When the transport
\* carries the handshake as far as the certificate, chain validation yields
\* `preverified` and the verify callback is called with it.
AsyncHandshake(transport_ok, preverified) ==
  /\ OnHandShake(HandshakeResult(transport_ok, preverified))
  /\ chain_valid' = IF transport_ok THEN <<preverified>> ELSE chain_valid

\* A request-write failure reported with the code of a connect failure.
WriteErrorCode_AsConnect == NETWORK_ERR_CONNECTION_FAILED

\* The code a request-write failure is reported with.
WriteErrorCode == NETWORK_ERR_FAILED

\* The bytes async_write was offered.
Offered == (IF "header" \in {request_bufs[i] : i \in 1..Len(request_bufs)}
            THEN Len(request_header_buf) ELSE 0)
           + (IF "body" \in {request_bufs[i] : i \in 1..Len(request_bufs)}
              THEN Len(request_body_buf) ELSE 0)

\* OnWriteRequest consuming the body buffer ahead of the header buffer.
OnWriteRequest_BodyFirst(err, transferred) ==
  /\ "write" \in pending
  /\ IF err = NoError
     THEN LET transferred_from_body ==
                Min(Len(request_body_buf), transferred)
              body == Drop(request_body_buf, transferred_from_body)
              header == IF transferred > transferred_from_body
                        THEN Drop(request_header_buf,
                                  transferred - transferred_from_body)
                        ELSE request_header_buf
              bufs == (IF Len(header) > 0 THEN <<"header">> ELSE <<>>)
                      \o (IF Len(body) > 0 THEN <<"body">> ELSE <<>>)
          IN /\ request_header_buf' = header
             /\ request_body_buf' = body
             /\ request_bufs' = bufs
             /\ pending' = (pending \ {"write"})
                           \cup (IF bufs # <<>> THEN {"write"}
                                 ELSE {"read_status"})
             /\ UNCHANGED <<callbackVars, failure>>
     ELSE /\ Fail("write", WriteErrorCode)
          /\ pending' = pending \ {"write"}
          /\ UNCHANGED requestVars
  /\ UNCHANGED <<buildVars, createVars, started, tlsVars, statusVars,
                 redirectVars, block, bodyVars, loopVars, sinkVars, crashed>>

OnWriteRequest(err, transferred) ==
  /\ "write" \in pending
  /\ IF err = NoError
     THEN LET transferred_from_header ==
                Min(Len(request_header_buf), transferred)
              header == Drop(request_header_buf, transferred_from_header)
              body == IF transferred > transferred_from_header
                      THEN Drop(request_body_buf,
                                transferred - transferred_from_header)
                      ELSE request_body_buf
              bufs == (IF Len(header) > 0 THEN <<"header">> ELSE <<>>)
                      \o (IF Len(body) > 0 THEN <<"body">> ELSE <<>>)
          IN /\ request_header_buf' = header
             /\ request_body_buf' = body
             /\ request_bufs' = bufs
             /\ pending' = (pending \ {"write"})
                           \cup (IF bufs # <<>> THEN {"write"}
                                 ELSE {"read_status"})
             /\ UNCHANGED <<callbackVars, failure>>
     ELSE /\ Fail("write", WriteErrorCode)
          /\ pending' = pending \ {"write"}
          /\ UNCHANGED requestVars
  /\ UNCHANGED <<buildVars, createVars, started, tlsVars, statusVars,
                 redirectVars, block, bodyVars, loopVars, sinkVars, crashed>>

-----------------------------------------------------------------------------
(* Header/Status Parser. *)

\* The characters std::isspace accepts, among those the texts hold.
WhiteSpace == {" ", "\r", "\n", "\t"}

DecimalDigits == {"0", "1", "2", "3", "4", "5", "6", "7", "8", "9"}

DigitValue(c) ==
  CASE c = "0" -> 0 [] c = "1" -> 1 [] c = "2" -> 2 [] c = "3" -> 3
    [] c = "4" -> 4 [] c = "5" -> 5 [] c = "6" -> 6 [] c = "7" -> 7
    [] c = "8" -> 8 [] c = "9" -> 9

DigitChar(d) ==
  CASE d = 0 -> "0" [] d = 1 -> "1" [] d = 2 -> "2" [] d = 3 -> "3"
    [] d = 4 -> "4" [] d = 5 -> "5" [] d = 6 -> "6" [] d = 7 -> "7"
    [] d = 8 -> "8" [] d = 9 -> "9"

\* std::to_string(unsigned)
RECURSIVE UintToString(_)
UintToString(n) ==
  IF n < 10 THEN <<DigitChar(n)>>
  ELSE UintToString(n \div 10) \o <<DigitChar(n % 10)>>

\* The index of the first character at or after `from` whose membership
\* in `chars` is `member`, or Len(s) + 1: std::find / std::find_if.
FindIf(s, from, chars, member) ==
  LET hits == {i \in from..Len(s) : (s[i] \in chars) = member}
  IN IF hits = {} THEN Len(s) + 1
     ELSE CHOOSE i \in hits : \A j \in hits : i <= j

\* The value of the digits s[from..to-1], read left to right.
RECURSIVE Digits(_, _, _)
Digits(s, from, to) ==
  IF to <= from THEN 0
  ELSE 10 * Digits(s, from, to - 1) + DigitValue(s[to - 1])

\* operator>>(std::string&): skip white space, take characters up to the
\* next white space; the stream fails when there is none to take.
ExtractToken(s, pos) ==
  LET begin == FindIf(s, pos, WhiteSpace, FALSE)
      end == FindIf(s, begin, WhiteSpace, TRUE)
  IN [fail |-> begin > Len(s), value |-> SubSeq(s, begin, end - 1),
      pos |-> end]

\* operator>>(unsigned int&): skip white space, take digits; the stream
\* fails when there is no digit.  The status lines enumerated below carry
\* no sign and no code of ten or more digits, so neither the negation of a
\* signed code nor the overflow of unsigned int is reached.
ExtractUnsigned(s, pos) ==
  LET begin == FindIf(s, pos, WhiteSpace, FALSE)
      end == FindIf(s, begin, DecimalDigits, FALSE)
  IN IF end = begin THEN [fail |-> TRUE, value |-> 0, pos |-> begin]
     ELSE [fail |-> FALSE, value |-> Digits(s, begin, end), pos |-> end]

HTTP_SLASH == <<"H", "T", "T", "P", "/">>

\* What OnReadStatusLine extracts from a status line (the line without its
\* line feed): the three fields and whether the line is rejected.  An
\* extraction on a failed stream does nothing.
ParseStatusLine(line) ==
  LET version == ExtractToken(line, 1)
      code == IF version.fail THEN [fail |-> TRUE, value |-> 0, pos |-> 0]
              ELSE ExtractUnsigned(line, version.pos)
      failed == version.fail \/ code.fail
  IN [http_version |-> version.value,
      status_code |-> code.value,
      status_message |-> IF failed THEN <<>> ELSE Drop(line, code.pos - 1),
      invalid |-> failed \/ Take(version.value, 5) # HTTP_SLASH]

\* The outcomes of ParseHeaderField on one header line (the line without its
\* line feed).  With no ':' in the line, name_end + 1 is an iterator past
\* the end of the string and both searches start there: the behaviour is
\* undefined, and the build may return the empty value, return bytes that
\* lie behind the string, or die.
ParseHeaderField(header) ==
  LET name_end == FindIf(header, 1, {":"}, TRUE)
      name == Take(header, name_end - 1)
      value_begin == FindIf(header, name_end + 1, {" "}, FALSE)
      value_end == FindIf(header, name_end + 1, {"\r"}, TRUE)
  IN IF name_end > Len(header)
     THEN { [name |-> name, value |-> <<>>, crash |-> FALSE],
            [name |-> name, value |-> <<"?">>, crash |-> FALSE],
            [name |-> name, value |-> <<>>, crash |-> TRUE] }
     ELSE { [name |-> name,
             value |-> SubSeq(header, value_begin, value_end - 1),
             crash |-> FALSE] }

\* The outcomes of calling ParseHeaderField on each line of a block in turn.
RECURSIVE ParseBlock(_)
ParseBlock(lines) ==
  IF lines = <<>> THEN {<<>>}
  ELSE { <<h>> \o rest : h \in ParseHeaderField(Head(lines)),
                         rest \in ParseBlock(Tail(lines)) }

LOCATION == <<"L", "o", "c", "a", "t", "i", "o", "n">>

\* The redirect loop of OnReadHeaders over the parsed lines: the first
\* Location wins.
RECURSIVE RedirectLocation_FirstWins(_, _)
RedirectLocation_FirstWins(fields, location) ==
  IF fields = <<>> THEN location
  ELSE RedirectLocation_FirstWins(
         Tail(fields),
         IF Head(fields).name = LOCATION /\ location = <<>>
         THEN Head(fields).value ELSE location)

\* The redirect loop of OnReadHeaders over the parsed lines, starting from
\* the cleared redirect_location_.
RECURSIVE RedirectLocation(_, _)
RedirectLocation(fields, location) ==
  IF fields = <<>> THEN location
  ELSE RedirectLocation(
         Tail(fields),
         IF Head(fields).name = LOCATION
         THEN Head(fields).value ELSE location)

\* The status lines a server may answer with.
StatusLines ==
  { <<"H","T","T","P","/","1",".","1"," ","2","0","0"," ","O","K","\r">>,
    <<"H","T","T","P","/","1",".","1"," ","3","0","1"," ","M","o","v","e","d","\r">>,
    <<"H","T","T","P","/","1",".","0"," ","3","0","2"," ","F","o","u","n","d","\r">>,
    <<"H","T","T","P","/","1",".","1"," ","4","0","4"," ","N","o","\r">>,
    <<"I","C","Y"," ","2","0","0"," ","O","K","\r">>,
    <<"H","T","T","P","/","1",".","1"," ","a","b","c","\r">> }

\* Longest status-code token of the status lines below.
MaxCodeLen == 3

\* Status lines built from a version token, a status-code token of digits
\* and letters, and a reason; and lines that end behind the version token.
StatusVersions ==
  { <<"H","T","T","P","/","1",".","1">>, <<"H","T","T","P","/">>,
    <<"H","T","T","P">>, <<"h","t","t","p","/","1",".","1">>,
    <<"I","C","Y">> }

StatusCodeTokens ==
  UNION {SeqsOfLen({"0", "4", "5", "a"}, n) : n \in 1..MaxCodeLen}

WideStatusLines ==
  { version \o <<" ">> \o code \o <<" ", "O", "K", "\r">> :
      version \in StatusVersions, code \in StatusCodeTokens }
  \cup { version \o <<"\r">> : version \in StatusVersions }

\* The header lines a server may answer with (each without its line feed).
H_LocationA == <<"L","o","c","a","t","i","o","n",":"," ","a","\r">>
H_LocationB == <<"L","o","c","a","t","i","o","n",":"," "," ","b","\r">>
H_LowerLocation == <<"l","o","c","a","t","i","o","n",":"," ","c","\r">>
H_Other == <<"X",":"," ","y","\r">>
H_NoColon == <<"j","u","n","k","\r">>

\* Longest header line of the lines below.
MaxLineLen == 5

\* Every header line of up to MaxLineLen characters over a letter, the
\* colon, the blank and the carriage return.
WideHeaderLines ==
  UNION {SeqsOfLen({"a", ":", " ", "\r"}, n) : n \in 0..MaxLineLen}

\* The header blocks a server may answer with (each without its blank line).
HeaderBlocks ==
  { <<>>,
    <<H_Other>>,
    <<H_LocationA>>,
    <<H_LocationA, H_LocationB>>,
    <<H_LocationB, H_LocationA>>,
    <<H_LocationA, H_LowerLocation>>,
    <<H_LocationB, H_Other>>,
    <<H_LocationA, H_NoColon>> }

-----------------------------------------------------------------------------
(* Connection State Machine: status line and headers. *)

\* The process dies inside a handler.
Crash ==
  /\ crashed' = TRUE
  /\ pending' = {}

OnReadStatusLine(err, line) ==
  /\ "read_status" \in pending
  /\ IF err = NoError
     THEN LET parsed == ParseStatusLine(line)
          IN /\ http_version' = parsed.http_version
             /\ status_code' = parsed.status_code
             /\ status_message' = parsed.status_message
             /\ first_line' = line
             /\ IF parsed.invalid
                THEN /\ Fail("invalid_response", NETWORK_ERR_INVALID_RESPONSE)
                     /\ pending' = pending \ {"read_status"}
                ELSE /\ pending' = (pending \ {"read_status"})
                                   \cup {"read_headers"}
                     /\ UNCHANGED <<callbackVars, failure>>
     ELSE \* logged only
          /\ failure' = failure \cup {"read_status"}
          /\ pending' = pending \ {"read_status"}
          /\ UNCHANGED <<statusVars, callbackVars>>
  /\ UNCHANGED <<buildVars, createVars, requestVars, started, tlsVars,
                 redirectVars, block, bodyVars, loopVars, sinkVars, crashed>>

\* The bytes an uninitialised TransferBuffer may hold: a byte (0) that is no
\* body byte, or the first body byte (1).
GarbageBytes == {0, 1}

\* response_stream.read(buffer, todo) into a fresh TransferBuffer: the
\* bytes the stream still holds, then whatever the buffer held.
ReadChunk(todo, garbage) ==
  Take(response_buf, Min(todo, Len(response_buf))) \o garbage

\* The envelope OnReadHeaders builds from the parsed status line and fields.
Envelope(fields) ==
  [status_code |-> status_code,
   status_line |-> http_version \o <<" ">> \o UintToString(status_code)
                   \o status_message,
   headers |-> [i \in 1..Len(fields) |-> <<fields[i].name, fields[i].value>>],
   body |-> "none"]

\* The callers of SendStreamedBody reading on whatever it returned.
StreamReturn_ReadsOn(result) ==
  /\ pc' = "idle"
  /\ size' = 0
  /\ done' = 0
  /\ pending' = pending \cup {"read_body_stream"}
  /\ UNCHANGED response_body_stream

\* What the callers of SendStreamedBody do with its result (OnReadHeaders
\* and OnStreamBody alike): on MX_OK read at least one more byte, otherwise
\* release the producer end and issue nothing.
StreamReturn(result) ==
  /\ pc' = "idle"
  /\ size' = 0
  /\ done' = 0
  /\ IF result = MX_OK
     THEN /\ pending' = pending \cup {"read_body_stream"}
          /\ UNCHANGED response_body_stream
     ELSE /\ pending' = pending
          /\ response_body_stream' = "reset"

\* The streamed branch of OnReadHeaders once the stream pair exists.
StreamedBranch(response, overread) ==
  /\ response_body_stream' = "open"
  /\ SendResponse(response)
  /\ IF overread > 0
     THEN /\ pc' = "stream_loop"
          /\ size' = overread
          /\ done' = 0
          /\ pending' = pending \ {"read_headers"}
     ELSE /\ pending' = (pending \ {"read_headers"})
                        \cup {"read_body_stream"}
          /\ UNCHANGED loopVars
  /\ UNCHANGED <<sinkVars, failure>>

\* `overread` is the number of body bytes async_read_until left in
\* response_buf_ behind the header terminator; `pair_ok` is whether
\* mx::socket::create succeeds.
OnReadHeaders(err, lines, fields, overread, pair_ok) ==
  /\ "read_headers" \in pending
  /\ IF err # NoError
     THEN \* logged only
          /\ failure' = failure \cup {"read_headers"}
          /\ pending' = pending \ {"read_headers"}
          /\ UNCHANGED <<redirectVars, block, bodyVars, loopVars, sinkVars,
                         callbackVars, crashed>>
     ELSE IF \E i \in 1..Len(fields) : fields[i].crash
     THEN /\ Crash
          /\ UNCHANGED <<redirectVars, block, bodyVars, loopVars, sinkVars,
                         callbackVars, failure>>
     ELSE
       /\ block' = lines
       /\ response_buf' = Bytes(1, overread)
       /\ received' = overread
       /\ UNCHANGED <<vmo, body_eof, crashed>>
       /\ IF status_code = 301 \/ status_code = 302
          THEN /\ redirect_location' = RedirectLocation(fields, <<>>)
               /\ redirected' = TRUE
               /\ pending' = pending \ {"read_headers"}
               /\ UNCHANGED <<response_, response_body_stream, loopVars,
                              sinkVars, callbackVars, failure>>
          ELSE /\ UNCHANGED redirectVars
               /\ IF buffer_response
                  THEN /\ response_' = <<Envelope(fields)>>
                       /\ pending' = (pending \ {"read_headers"})
                                     \cup {"read_body_buffer"}
                       /\ UNCHANGED <<response_body_stream, loopVars,
                                      sinkVars, callbackVars, failure>>
                  ELSE IF ~pair_ok
                  THEN \* logged only
                       /\ failure' = failure \cup {"pair_create"}
                       /\ pending' = pending \ {"read_headers"}
                       /\ UNCHANGED <<response_, response_body_stream,
                                      loopVars, sinkVars, callbackVars>>
                  ELSE /\ StreamedBranch(
                            [Envelope(fields) EXCEPT !.body = "stream"],
                            overread)
                       /\ UNCHANGED response_
  /\ UNCHANGED <<buildVars, createVars, requestVars, started, tlsVars,
                 statusVars>>

-----------------------------------------------------------------------------
(* Body Delivery Engine: streamed mode. *)

\* One pass of the loop of SendStreamedBody: read a chunk, offer it to the
\* sink.  `result` and `written` are what response_body_stream_.write
\* answers; on MX_ERR_SHOULD_WAIT the handler blocks in wait_one.
SendStreamedBody_Write(result, written, garbage) ==
  /\ pc = "stream_loop"
  /\ LET todo == Min(ChunkSize, size - done)
         buffer == ReadChunk(todo, garbage)
     IN /\ Len(buffer) = todo
        /\ written \in 1..todo
        /\ response_buf' = Drop(response_buf, Min(todo, Len(response_buf)))
        /\ blocked' = IF result = MX_ERR_SHOULD_WAIT THEN buffer ELSE <<>>
        /\ peer_closed' = (result = MX_ERR_PEER_CLOSED)
        /\ IF result = MX_OK
           THEN /\ sink' = sink \o Take(buffer, written)
                /\ IF done + written < size
                   THEN /\ done' = done + written
                        /\ UNCHANGED <<pc, size, pending,
                                       response_body_stream>>
                   ELSE StreamReturn(MX_OK)
           ELSE IF result = MX_ERR_SHOULD_WAIT
           THEN /\ pc' = "stream_wait"
                /\ UNCHANGED <<sink, size, done, pending,
                               response_body_stream>>
           ELSE /\ StreamReturn(result)
                /\ UNCHANGED sink
  /\ UNCHANGED <<buildVars, createVars, requestVars, started, tlsVars,
                 statusVars, redirectVars, block, received, response_, vmo,
                 body_eof, callbackVars, failure, crashed>>

\* wait_one(MX_SOCKET_WRITABLE | MX_SOCKET_PEER_CLOSED) returns: on MX_OK
\* the loop continues with its next pass, otherwise the result is returned.
SendStreamedBody_Wait(result) ==
  /\ pc = "stream_wait"
  /\ IF result = MX_OK
     THEN /\ pc' = "stream_loop"
          /\ UNCHANGED <<pending, response_body_stream, size, done>>
     ELSE StreamReturn(result)
  /\ UNCHANGED <<buildVars, createVars, requestVars, started, tlsVars,
                 statusVars, redirectVars, block, response_buf, received,
                 response_, vmo, body_eof, sinkVars, callbackVars, failure,
                 crashed>>

\* OnStreamBody with SendError on a failed read.
OnStreamBody_ReportsError(err, n) ==
  /\ "read_body_stream" \in pending
  /\ pc = "idle"
  /\ IF err = NoError
     THEN /\ n \in 1..(MaxBody - received)
          /\ response_buf' = response_buf \o Bytes(received + 1, received + n)
          /\ received' = received + n
          /\ pc' = "stream_loop"
          /\ size' = Len(response_buf) + n
          /\ done' = 0
          /\ pending' = pending \ {"read_body_stream"}
          /\ UNCHANGED <<response_body_stream, body_eof, callbackVars>>
     ELSE /\ n = 0
          /\ response_body_stream' = "reset"
          /\ body_eof' = (err = Eof)
          /\ pending' = pending \ {"read_body_stream"}
          /\ SendError(NETWORK_ERR_FAILED)
          /\ UNCHANGED <<response_buf, received, loopVars>>
  /\ UNCHANGED <<buildVars, createVars, requestVars, started, tlsVars,
                 statusVars, redirectVars, block, response_, vmo, sinkVars,
                 failure, crashed>>

\* OnStreamBody keeping the producer end when the read fails.
OnStreamBody_KeepsProducer(err, n) ==
  /\ "read_body_stream" \in pending
  /\ pc = "idle"
  /\ IF err = NoError
     THEN /\ n \in 1..(MaxBody - received)
          /\ response_buf' = response_buf \o Bytes(received + 1, received + n)
          /\ received' = received + n
          /\ pc' = "stream_loop"
          /\ size' = Len(response_buf) + n
          /\ done' = 0
          /\ pending' = pending \ {"read_body_stream"}
          /\ UNCHANGED <<response_body_stream, body_eof>>
     ELSE /\ n = 0
          /\ body_eof' = (err = Eof)
          /\ pending' = pending \ {"read_body_stream"}
          /\ UNCHANGED <<response_body_stream, response_buf, received,
                         loopVars>>
  /\ UNCHANGED <<buildVars, createVars, requestVars, started, tlsVars,
                 statusVars, redirectVars, block, response_, vmo, sinkVars,
                 callbackVars, failure, crashed>>

\* `n` is the number of bytes the read transferred: at least one when it
\* succeeds (asio::transfer_at_least(1)), none when it fails.
OnStreamBody(err, n) ==
  /\ "read_body_stream" \in pending
  /\ pc = "idle"
  /\ IF err = NoError
     THEN /\ n \in 1..(MaxBody - received)
          /\ response_buf' = response_buf \o Bytes(received + 1, received + n)
          /\ received' = received + n
          /\ pc' = "stream_loop"
          /\ size' = Len(response_buf) + n
          /\ done' = 0
          /\ pending' = pending \ {"read_body_stream"}
          /\ UNCHANGED <<response_body_stream, body_eof>>
     ELSE /\ n = 0
          /\ response_body_stream' = "reset"
          /\ body_eof' = (err = Eof)
          /\ pending' = pending \ {"read_body_stream"}
          /\ UNCHANGED <<response_buf, received, loopVars>>
  /\ UNCHANGED <<buildVars, createVars, requestVars, started, tlsVars,
                 statusVars, redirectVars, block, response_, vmo, sinkVars,
                 callbackVars, failure, crashed>>

-----------------------------------------------------------------------------
(* Body Delivery Engine: buffered mode. *)

NoVmo == [exists |-> FALSE, size |-> 0, data |-> <<>>]

\* OnBufferBody after SendBufferedBody has returned: SendResponse with
\* response_, whatever SendBufferedBody returned.
DeliverBuffered(response) ==
  /\ SendResponse(response)
  /\ response_' = <<>>
  /\ pc' = "idle"
  /\ size' = 0
  /\ done' = 0

\* `done` after one pass of the copy loop, advanced by the chunk size.
NextDone_ByTodo(done_, todo, written) == done_ + todo

\* `done` after one pass of the copy loop: done += written.
NextDone(done_, todo, written) == done_ + written

\* `n` is the number of bytes the read transferred before it completed
\* with `err`; `vmo_ok` is whether mx::vmo::create succeeds.
OnBufferBody(err, n, vmo_ok) ==
  /\ "read_body_buffer" \in pending
  /\ pc = "idle"
  /\ n \in 0..(MaxBody - received)
  /\ pending' = pending \ {"read_body_buffer"}
  /\ response_buf' = response_buf \o Bytes(received + 1, received + n)
  /\ received' = received + n
  /\ body_eof' = (err = Eof)
  /\ IF err # NoError /\ err # StreamTruncated
     THEN /\ Fail("read_body", NETWORK_ERR_FAILED)
          /\ UNCHANGED <<response_, vmo, loopVars>>
     ELSE LET size_ == Len(response_buf) + n
          IN IF size_ = 0
             THEN /\ DeliverBuffered(response_[1])
                  /\ UNCHANGED <<vmo, failure>>
             ELSE IF ~vmo_ok
             THEN \* SendBufferedBody returns the error; it is dropped
                  /\ failure' = failure \cup {"vmo_create"}
                  /\ DeliverBuffered(response_[1])
                  /\ UNCHANGED vmo
             ELSE /\ vmo' = [exists |-> TRUE, size |-> size_, data |-> <<>>]
                  /\ pc' = "buffer_loop"
                  /\ size' = size_
                  /\ done' = 0
                  /\ UNCHANGED <<response_, callbackVars, failure>>
  /\ UNCHANGED <<buildVars, createVars, requestVars, started, tlsVars,
                 statusVars, redirectVars, block, response_body_stream,
                 sinkVars, crashed>>

\* One pass of the loop of SendBufferedBody: read a chunk, write it to the
\* vmo at offset `done`.  `result` and `written` are what vmo.write answers.
SendBufferedBody_Write(result, written, garbage) ==
  /\ pc = "buffer_loop"
  /\ LET todo == Min(ChunkSize, size - done)
         buffer == ReadChunk(todo, garbage)
     IN /\ Len(buffer) = todo
        /\ written \in 1..todo
        /\ response_buf' = Drop(response_buf, Min(todo, Len(response_buf)))
        /\ IF result # MX_OK
           THEN \* SendBufferedBody returns the error; it is dropped
                /\ failure' = failure \cup {"vmo_write"}
                /\ vmo' = NoVmo
                /\ DeliverBuffered(response_[1])
           ELSE /\ vmo' = [vmo EXCEPT !.data = @ \o Take(buffer, written)]
                /\ UNCHANGED failure
                /\ IF NextDone(done, todo, written) < size
                   THEN /\ done' = NextDone(done, todo, written)
                        /\ UNCHANGED <<pc, size, response_, callbackVars>>
                   ELSE DeliverBuffered(
                          [response_[1] EXCEPT !.body = "buffer"])
  /\ UNCHANGED <<buildVars, createVars, requestVars, started, pending,
                 tlsVars, statusVars, redirectVars, block, received,
                 response_body_stream, body_eof, sinkVars, crashed>>

-----------------------------------------------------------------------------
(* The specification. *)

Server == "example.com"
Path == "/index.html"

Init ==
  /\ flavor \in {"ssl", "nonssl"}
  /\ buffer_response \in BOOLEAN
  /\ cert_hack \in (IF flavor = "ssl" THEN BOOLEAN ELSE {FALSE})
  /\ disable_verify \in (IF flavor = "ssl" /\ ~cert_hack THEN BOOLEAN
                         ELSE {FALSE})
  /\ req = <<>>
  /\ create_result = "none"
  /\ readers_drained = 0
  /\ request_header_buf = <<>>
  /\ request_body_buf = <<>>
  /\ request_bufs = <<>>
  /\ started = FALSE
  /\ pending = {}
  /\ verify_mode = "unset"
  /\ chain_valid = <<>>
  /\ http_version = <<>>
  /\ status_code = 0
  /\ status_message = <<>>
  /\ first_line = <<>>
  /\ redirect_location = <<>>
  /\ redirected = FALSE
  /\ block = <<>>
  /\ response_buf = <<>>
  /\ received = 0
  /\ response_ = <<>>
  /\ response_body_stream = "none"
  /\ pc = "idle"
  /\ size = 0
  /\ done = 0
  /\ sink = <<>>
  /\ vmo = NoVmo
  /\ blocked = <<>>
  /\ peer_closed = FALSE
  /\ responses = <<>>
  /\ errors = <<>>
  /\ sink_at_response = 0
  /\ failure = {}
  /\ body_eof = FALSE
  /\ crashed = FALSE

\* The number of bytes of its next chunk that a copy loop finds missing
\* from response_buf_.
Missing ==
  LET todo == Min(ChunkSize, size - done)
  IN IF todo > Len(response_buf) THEN todo - Len(response_buf) ELSE 0

\* What a failed read or write completes with.
IoErrors == {Eof, OtherError}

Next ==
  \/ \E method \in Methods, extra_headers \in ExtraHeaderMaps,
        element_readers \in ReaderLists :
       CreateRequest(Server, Path, method, extra_headers, element_readers)
  \/ Start
  \/ \E err \in {NoError, OtherError} : OnResolve_ssl(err)
  \/ \E err \in {NoError, OtherError} : OnResolve_nonssl(err)
  \/ \E err \in {NoError, OtherError} : OnConnect_ssl(err)
  \/ \E err \in {NoError, OtherError} : OnConnect_nonssl(err)
  \/ \E transport_ok \in BOOLEAN, preverified \in BOOLEAN :
       AsyncHandshake(transport_ok, preverified)
  \/ \E err \in {NoError, OtherError}, transferred \in 1..Offered :
       OnWriteRequest(err, transferred)
  \/ \E err \in {NoError} \cup IoErrors, line \in StatusLines :
       OnReadStatusLine(err, line)
  \/ \E err \in {NoError} \cup IoErrors, lines \in HeaderBlocks,
        overread \in 0..MaxBody, pair_ok \in BOOLEAN :
       \E fields \in ParseBlock(lines) :
         OnReadHeaders(err, lines, fields, overread, pair_ok)
  \/ \E result \in {MX_OK, MX_ERR_SHOULD_WAIT, MX_ERR_PEER_CLOSED,
                    MX_ERR_BAD_STATE} :
       \E written \in (IF result = MX_OK THEN 1..ChunkSize ELSE {1}),
          garbage \in SeqsOfLen(GarbageBytes, Missing) :
         SendStreamedBody_Write(result, written, garbage)
  \/ \E result \in {MX_OK, MX_ERR_CANCELED} : SendStreamedBody_Wait(result)
  \/ \E err \in {NoError} \cup IoErrors, n \in 0..MaxBody :
       OnStreamBody(err, n)
  \/ \E err \in IoErrors \cup (IF flavor = "ssl" THEN {StreamTruncated} ELSE {}),
        n \in 0..MaxBody, vmo_ok \in BOOLEAN :
       OnBufferBody(err, n, vmo_ok)
  \/ \E result \in {MX_OK, MX_ERR_BAD_STATE} :
       \E written \in (IF result = MX_OK THEN 1..ChunkSize ELSE {1}),
          garbage \in SeqsOfLen(GarbageBytes, Missing) :
         SendBufferedBody_Write(result, written, garbage)

Spec == Init /\ [][Next]_vars

\* The request up to the handling of its header block, with a status line
\* `HTTP/1.1 200 OK` and a block of one line drawn from WideHeaderLines.
NextHeaders ==
  \/ \E method \in Methods, extra_headers \in ExtraHeaderMaps,
        element_readers \in ReaderLists :
       CreateRequest(Server, Path, method, extra_headers, element_readers)
  \/ Start
  \/ \E err \in {NoError, OtherError} : OnResolve_ssl(err)
  \/ \E err \in {NoError, OtherError} : OnResolve_nonssl(err)
  \/ \E err \in {NoError, OtherError} : OnConnect_ssl(err)
  \/ \E err \in {NoError, OtherError} : OnConnect_nonssl(err)
  \/ \E transport_ok \in BOOLEAN, preverified \in BOOLEAN :
       AsyncHandshake(transport_ok, preverified)
  \/ \E err \in {NoError, OtherError}, transferred \in 1..Offered :
       OnWriteRequest(err, transferred)
  \/ \E err \in {NoError} \cup IoErrors :
       OnReadStatusLine(err, <<"H", "T", "T", "P", "/", "1", ".", "1", " ",
                               "2", "0", "0", " ", "O", "K", "\r">>)
  \/ \E err \in {NoError} \cup IoErrors, header \in WideHeaderLines :
       \E fields \in ParseBlock(<<header>>) :
         OnReadHeaders(err, <<header>>, fields, 0, TRUE)

HeaderSpec == Init /\ [][NextHeaders]_vars

\* The scheduling the streamed body relies on: the io_service runs the
\* completion handler of the body read, whose peer sends at most MaxBody
\* bytes and then closes; wait_one returns; and a sink that is offered
\* chunks again and again accepts one in the end.
StreamFairness ==
  /\ WF_vars(\E err \in {NoError} \cup IoErrors, n \in 0..MaxBody :
               OnStreamBody(err, n))
  /\ WF_vars(\E result \in {MX_OK, MX_ERR_CANCELED} :
               SendStreamedBody_Wait(result))
  /\ SF_vars(\E written \in 1..ChunkSize,
                garbage \in SeqsOfLen(GarbageBytes, Missing) :
               SendStreamedBody_Write(MX_OK, written, garbage))

\* The request in streamed mode: the handlers of Next without the two of
\* the buffered copy, the header blocks drawn from the two shortest.
NextStream ==
  \/ \E method \in Methods, extra_headers \in ExtraHeaderMaps,
        element_readers \in ReaderLists :
       CreateRequest(Server, Path, method, extra_headers, element_readers)
  \/ Start
  \/ \E err \in {NoError, OtherError} : OnResolve_ssl(err)
  \/ \E err \in {NoError, OtherError} : OnResolve_nonssl(err)
  \/ \E err \in {NoError, OtherError} : OnConnect_ssl(err)
  \/ \E err \in {NoError, OtherError} : OnConnect_nonssl(err)
  \/ \E transport_ok \in BOOLEAN, preverified \in BOOLEAN :
       AsyncHandshake(transport_ok, preverified)
  \/ \E err \in {NoError, OtherError}, transferred \in 1..Offered :
       OnWriteRequest(err, transferred)
  \/ \E err \in {NoError} \cup IoErrors, line \in StatusLines :
       OnReadStatusLine(err, line)
  \/ \E err \in {NoError} \cup IoErrors, lines \in {<<>>, <<H_Other>>},
        overread \in 0..MaxBody, pair_ok \in BOOLEAN :
       \E fields \in ParseBlock(lines) :
         OnReadHeaders(err, lines, fields, overread, pair_ok)
  \/ \E result \in {MX_OK, MX_ERR_SHOULD_WAIT, MX_ERR_PEER_CLOSED,
                    MX_ERR_BAD_STATE} :
       \E written \in (IF result = MX_OK THEN 1..ChunkSize ELSE {1}),
          garbage \in SeqsOfLen(GarbageBytes, Missing) :
         SendStreamedBody_Write(result, written, garbage)
  \/ \E result \in {MX_OK, MX_ERR_CANCELED} : SendStreamedBody_Wait(result)
  \/ \E err \in {NoError} \cup IoErrors, n \in 0..MaxBody :
       OnStreamBody(err, n)

FairSpec == Init /\ [][NextStream]_vars /\ StreamFairness

\* The request up to the handling of its status line, with the status
\* lines drawn from WideStatusLines.
NextStatus ==
  \/ \E method \in Methods, extra_headers \in ExtraHeaderMaps,
        element_readers \in ReaderLists :
       CreateRequest(Server, Path, method, extra_headers, element_readers)
  \/ Start
  \/ \E err \in {NoError, OtherError} : OnResolve_ssl(err)
  \/ \E err \in {NoError, OtherError} : OnResolve_nonssl(err)
  \/ \E err \in {NoError, OtherError} : OnConnect_ssl(err)
  \/ \E err \in {NoError, OtherError} : OnConnect_nonssl(err)
  \/ \E transport_ok \in BOOLEAN, preverified \in BOOLEAN :
       AsyncHandshake(transport_ok, preverified)
  \/ \E err \in {NoError, OtherError}, transferred \in 1..Offered :
       OnWriteRequest(err, transferred)
  \/ \E err \in {NoError} \cup IoErrors, line \in WideStatusLines :
       OnReadStatusLine(err, line)

StatusSpec == Init /\ [][NextStatus]_vars

-----------------------------------------------------------------------------
(* The properties checked. *)

IsPrefix(a, b) == Len(a) <= Len(b) /\ a = SubSeq(b, 1, Len(a))

\* The request was started and nothing is left to run: no operation is in
\* flight and no handler is inside a loop.
Quiescent == started /\ pending = {} /\ pc = "idle" /\ ~crashed

\* The terminal outcomes reported so far.
Outcomes ==
  Len(responses) + Len(errors) + (IF redirected THEN 1 ELSE 0)

\* C1: a started request reports precisely one terminal outcome (a response,
\* a redirect or an error): never more than one, and one by the time nothing
\* is left to run.
C1_ExactlyOneOutcome ==
  /\ Outcomes <= 1
  /\ Quiescent => Outcomes = 1

\* C2: a failed resolve, connect, handshake, request write, status-line
\* read, header read or stream-pair creation is surfaced exactly once
\* through deliver-error.
C2_FailureSurfacedOnce ==
  (failure \cap {"resolve", "connect", "handshake", "write", "read_status",
                 "read_headers", "pair_create"} # {})
    => Len(errors) = 1

\* C3: after the sink answered would-block to a chunk and then became
\* writable, the bytes the sink accepts next are the bytes of that same
\* chunk.
C3_RetrySameChunk ==
  [][(pc = "stream_loop" /\ blocked # <<>> /\ sink' # sink)
       => IsPrefix(SubSeq(sink', Len(sink) + 1, Len(sink')), blocked)]_vars

\* C4: in buffered mode, once the body read has completed with end of file,
\* deliver-response has been invoked exactly once and deliver-error not at
\* all.
C4_BufferedCleanClose ==
  (buffer_response /\ body_eof /\ pc = "idle")
    => (Len(responses) = 1 /\ errors = <<>>)

\* C5: in buffered mode, when the destination cannot be allocated or a write
\* into it fails, deliver-response is not invoked and the failure is
\* reported as an error.
C5_NoDeliveryOnDestinationFailure ==
  (failure \cap {"vmo_create", "vmo_write"} # {})
    => (responses = <<>> /\ Len(errors) = 1)

\* The value of the last line of a block that starts with "Location:", read
\* from the end of the block: the text behind the colon without its leading
\* blanks, up to the carriage return.
C6_IsLocationLine(line) ==
  /\ Len(line) >= 9
  /\ SubSeq(line, 1, 9) = <<"L", "o", "c", "a", "t", "i", "o", "n", ":">>

RECURSIVE C6_StripBlanks(_)
C6_StripBlanks(s) ==
  IF s # <<>> /\ Head(s) = " " THEN C6_StripBlanks(Tail(s)) ELSE s

RECURSIVE C6_UpToCR(_)
C6_UpToCR(s) ==
  IF s = <<>> \/ Head(s) = "\r" THEN <<>>
  ELSE <<Head(s)>> \o C6_UpToCR(Tail(s))

C6_LastLocation(lines) ==
  LET at == {i \in 1..Len(lines) : C6_IsLocationLine(lines[i])}
  IN IF at = {} THEN <<>>
     ELSE LET last == CHOOSE i \in at : \A j \in at : j <= i
          IN C6_UpToCR(C6_StripBlanks(SubSeq(lines[last], 10,
                                             Len(lines[last]))))

\* The header handler ran to its end.
C6_HeadersHandled ==
  /\ "read_headers" \notin pending
  /\ "read_headers" \notin failure
  /\ ~crashed

\* C6: whenever the parsed status code is 301 or 302, no response is
\* delivered, no body byte is delivered, no read is issued behind the header
\* read, and once the headers are handled the recorded redirect target is
\* the value of the last Location header of the block.
C6_Redirect ==
  (status_code \in {301, 302})
    => /\ responses = <<>>
       /\ sink = <<>>
       /\ ~vmo.exists
       /\ response_body_stream = "none"
       /\ pending \subseteq {"read_headers"}
       /\ pc = "idle"
       /\ C6_HeadersHandled
            => (redirected /\ redirect_location = C6_LastLocation(block))

\* C6 witness: a 302 whose block holds two Location headers was handled and
\* the second value is recorded.
C6_Witness ==
  /\ status_code = 302
  /\ redirected
  /\ block = <<H_LocationA, H_LocationB>>
  /\ redirect_location = <<"b">>
  /\ received > 0

\* C7: in streamed mode, from the moment the stream pair exists,
\* deliver-response has been invoked exactly once, with the consumer end
\* attached and before any byte was written to the producer side, and no
\* error is ever delivered; no byte reaches the sink without it.
C7_StreamedResponseOnce ==
  /\ (response_body_stream # "none")
       => /\ Len(responses) = 1
          /\ responses[1].body = "stream"
          /\ sink_at_response = 0
          /\ errors = <<>>
  /\ sink # <<>> => response_body_stream # "none"
  /\ ~buffer_response => Len(responses) <= 1

\* C7 witness: the body was streamed up to a failed read, and the producer
\* released, with one response delivered.
C7_Witness ==
  /\ response_body_stream = "reset"
  /\ ~body_eof
  /\ "read_body_stream" \notin pending
  /\ pc = "idle"
  /\ Len(sink) >= 2
  /\ Len(responses) = 1

\* The bytes in the destination of a delivered response.
C8_DestinationCount(response) ==
  IF response.body = "buffer" THEN Len(vmo.data) ELSE 0

\* C8: a buffered response whose destination was allocated and written
\* without failure is delivered with a destination that holds as many bytes
\* as the socket received behind the header terminator, and is of that size.
C8_BufferedCompleteness ==
  (buffer_response /\ Len(responses) = 1
   /\ failure \cap {"vmo_create", "vmo_write"} = {})
    => /\ C8_DestinationCount(responses[1]) = received
       /\ responses[1].body = "buffer" => (vmo.exists /\ vmo.size = received)
       /\ received > 0 => responses[1].body = "buffer"

\* C8 witness: a buffered response with a body of several bytes, copied with
\* a short write, was delivered.
C8_Witness ==
  /\ buffer_response
  /\ Len(responses) = 1
  /\ responses[1].body = "buffer"
  /\ received = 3
  /\ Len(vmo.data) = 3

\* C9: for a method that is not exactly one of the eight allowed,
\* CreateRequest fails with the invalid-method error, issues no I/O, drains
\* no upload reader and queues no request bytes.
C9_InvalidMethod ==
  (req # <<>>
   /\ req[1].method \notin {"GET", "HEAD", "POST", "PUT", "DELETE", "TRACE",
                            "CONNECT", "PATCH"})
    => /\ create_result = "MX_ERR_INVALID_ARGS"
       /\ pending = {}
       /\ ~started
       /\ readers_drained = 0
       /\ request_header_buf = <<>>
       /\ request_body_buf = <<>>
       /\ request_bufs = <<>>

\* C9 witness: CreateRequest was called with the method in lower case and
\* with upload readers, and failed.
C9_Witness ==
  /\ req # <<>>
  /\ req[1].method = "get"
  /\ Len(req[1].readers) = 2
  /\ create_result = "MX_ERR_INVALID_ARGS"

\* What holds after a failure of the given stage: the one error reported is
\* of the given kind, and nothing is in flight.
C10_ReportedAs(stage, kind) ==
  (stage \in failure) => (errors = <<kind>> /\ pending = {} /\ pc = "idle")

\* C10 as stated: a request-write failure is reported with a kind of its
\* own, distinct from the generic failure.
C10_WriteFailureDistinct ==
  /\ C10_ReportedAs("resolve", "NETWORK_ERR_NAME_NOT_RESOLVED")
  /\ C10_ReportedAs("connect", "NETWORK_ERR_CONNECTION_FAILED")
  /\ C10_ReportedAs("handshake", "NETWORK_ERR_SSL_HANDSHAKE_NOT_COMPLETED")
  /\ ("write" \in failure)
       => (Len(errors) = 1 /\ errors[1] # "NETWORK_ERR_FAILED"
           /\ pending = {} /\ pc = "idle")

\* C10 as amended: a resolve failure is reported as NameNotResolved, a
\* connect failure as ConnectionFailed, a handshake failure as
\* SslHandshakeIncomplete and a request-write failure as the generic
\* failure; after the report nothing is retried and no I/O is issued.
C10_ErrorKinds ==
  /\ C10_ReportedAs("resolve", "NETWORK_ERR_NAME_NOT_RESOLVED")
  /\ C10_ReportedAs("connect", "NETWORK_ERR_CONNECTION_FAILED")
  /\ C10_ReportedAs("handshake", "NETWORK_ERR_SSL_HANDSHAKE_NOT_COMPLETED")
  /\ C10_ReportedAs("write", "NETWORK_ERR_FAILED")

\* C10 witness: the request write failed after a partial transfer and the
\* generic failure was reported.
C10_Witness ==
  /\ "write" \in failure
  /\ errors = <<"NETWORK_ERR_FAILED">>
  /\ flavor = "ssl"
  /\ request_bufs = <<"body">>

\* A header name that reads "accept" when case is ignored.
C11_IsAcceptName(name) ==
  /\ Len(name) = 6
  /\ \A i \in 1..6 :
       name[i] \in {<<"a", "c", "c", "e", "p", "t">>[i],
                    <<"A", "C", "C", "E", "P", "T">>[i]}

\* The number of `Accept: */*` lines of the header block that are not the
\* line of a supplied header: the supplied headers take the lines 4 to
\* 3 + n of the block.
C11_Synthesized ==
  Cardinality({i \in 1..Len(request_header_buf) :
                 /\ i \notin 4..(3 + Len(req[1].extra_headers))
                 /\ request_header_buf[i].kind = "header"
                 /\ request_header_buf[i].name
                      = <<"A", "c", "c", "e", "p", "t">>
                 /\ request_header_buf[i].text = "*/*"})

\* C11: the header block of a built request holds exactly one synthesized
\* `Accept: */*` line when no supplied header name equals "accept" with case
\* ignored, and none when such a header is supplied.
C11_AcceptSynthesizedOnce ==
  (req # <<>> /\ create_result = "MX_OK")
    => C11_Synthesized =
         (IF \E i \in 1..Len(req[1].extra_headers) :
               C11_IsAcceptName(req[1].extra_headers[i][1])
          THEN 0 ELSE 1)

\* C11 witness: a request was built with a supplied header named ACCEPT and
\* no Accept line was synthesized.
C11_Witness ==
  /\ req # <<>>
  /\ create_result = "MX_OK"
  /\ Len(req[1].extra_headers) = 2
  /\ req[1].extra_headers[1][1] = <<"A", "C", "C", "E", "P", "T">>
  /\ C11_Synthesized = 0


\* The number of bytes the readers hold together.
RECURSIVE C12_Total(_)
C12_Total(readers) ==
  IF readers = <<>> THEN 0
  ELSE Len(Head(readers).data) + C12_Total(Tail(readers))

\* The bytes of the readers, first reader first.
RECURSIVE C12_InOrder(_)
C12_InOrder(readers) ==
  IF readers = <<>> THEN <<>>
  ELSE Head(readers).data \o C12_InOrder(Tail(readers))

\* C12: the header block of a successfully built request is, in this
\* order, the request line, the Host line, `Connection: close`, one line for
\* each extra header, and the synthesized Accept line if there is one; a
\* Content-Length line follows exactly when the drained body is not empty
\* and carries the number of bytes drained from all readers, which lie in
\* the body buffer in the order of the readers; a blank line ends the block.
C12_HeaderBlockOrder ==
  (req # <<>> /\ create_result = "MX_OK")
    => LET b == request_header_buf
           r == req[1]
           n == Len(r.extra_headers)
           a == IF \E i \in 1..n : C11_IsAcceptName(r.extra_headers[i][1])
                THEN 0 ELSE 1
           total == C12_Total(r.readers)
           c == IF total > 0 THEN 1 ELSE 0
       IN /\ Len(b) = 3 + n + a + c + 1
          /\ b[1].kind = "request"
          /\ b[1].text = r.method
          /\ b[1].target = r.path
          /\ b[2].kind = "header"
          /\ b[2].name = <<"H", "o", "s", "t">>
          /\ b[2].text = r.server
          /\ b[3].kind = "header"
          /\ b[3].name = <<"C", "o", "n", "n", "e", "c", "t", "i", "o", "n">>
          /\ b[3].text = "close"
          /\ \A i \in 1..n :
               /\ b[3 + i].kind = "header"
               /\ b[3 + i].name = r.extra_headers[i][1]
               /\ b[3 + i].text = r.extra_headers[i][2]
          /\ a = 1 => /\ b[4 + n].kind = "header"
                      /\ b[4 + n].name = <<"A", "c", "c", "e", "p", "t">>
                      /\ b[4 + n].text = "*/*"
          /\ c = 1 => /\ b[4 + n + a].kind = "header"
                      /\ b[4 + n + a].name
                           = <<"C", "o", "n", "t", "e", "n", "t", "-",
                               "L", "e", "n", "g", "t", "h">>
                      /\ b[4 + n + a].number = total
          /\ c = 0 => \A i \in 1..Len(b) :
                        b[i].name # <<"C", "o", "n", "t", "e", "n", "t", "-",
                                      "L", "e", "n", "g", "t", "h">>
          /\ b[Len(b)].kind = "blank"
          /\ request_body_buf = C12_InOrder(r.readers)
          /\ Len(request_body_buf) = total

\* C12 witness: a POST with an extra header and two readers of one byte
\* each was built: seven lines, Content-Length 2 before the blank line.
C12_Witness ==
  /\ req # <<>>
  /\ create_result = "MX_OK"
  /\ req[1].method = "POST"
  /\ Len(req[1].extra_headers) = 1
  /\ Len(req[1].readers) = 2
  /\ Len(request_header_buf) = 7
  /\ request_header_buf[6].number = 2
  /\ request_body_buf = <<1, 2>>


\* The build with neither certificate flag defined.
C13_DefaultBuild == flavor = "ssl" /\ ~cert_hack /\ ~disable_verify

\* No byte of the request has left the buffers and nothing is in flight.
C13_RequestNotWritten ==
  /\ pending = {}
  /\ request_bufs = <<"header", "body">>
  /\ request_header_buf # <<>>
  /\ request_header_buf[1].kind = "request"
  /\ "write" \notin failure
  /\ responses = <<>>

\* C13: in the default build the verify callback returns the preverified
\* value it is given, and once chain validation has failed for the
\* certificate of a connection the handshake is reported as failed and the
\* request is not written; with the bypass flag the callback returns true
\* whatever it is given.
C13_TrustGate ==
  /\ ~cert_hack => \A p \in BOOLEAN : OnVerifyCertificate(p) = p
  /\ cert_hack => \A p \in BOOLEAN : OnVerifyCertificate(p) = TRUE
  /\ (C13_DefaultBuild /\ chain_valid = <<FALSE>>)
       => /\ "handshake" \in failure
          /\ errors = <<"NETWORK_ERR_SSL_HANDSHAKE_NOT_COMPLETED">>
          /\ C13_RequestNotWritten

\* C13 witness: in the default build the peer presented a certificate that
\* failed chain validation, and the handshake failed.
C13_Witness ==
  /\ C13_DefaultBuild
  /\ verify_mode = "verify_peer"
  /\ chain_valid = <<FALSE>>
  /\ "handshake" \in failure


\* C14: at most one asynchronous operation of the request is in flight in
\* any state, and none while a handler is inside a copy loop; so a handler
\* issues at most one operation, and only after the one that called it has
\* completed.
C14_OneOperationInFlight ==
  /\ Cardinality(pending) <= 1
  /\ pc # "idle" => pending = {}

\* C14 witness: the streamed copy loop has run and the one operation in
\* flight is the next body read.
C14_Witness ==
  /\ pending = {"read_body_stream"}
  /\ Len(sink) >= 2
  /\ pc = "idle"


\* The state of the request: the operation it waits for, or what it does.
C15_State ==
  IF ~started THEN "NotStarted"
  ELSE IF "resolve" \in pending THEN "Resolving"
  ELSE IF "connect" \in pending THEN "Connecting"
  ELSE IF "handshake" \in pending THEN "Handshaking"
  ELSE IF "write" \in pending THEN "WritingRequest"
  ELSE IF "read_status" \in pending THEN "ReadingStatusLine"
  ELSE IF "read_headers" \in pending THEN "ReadingHeaders"
  ELSE IF redirected THEN "RedirectDetected"
  ELSE IF pending # {} \/ pc # "idle" THEN "DeliveringBody"
  ELSE "Closed"

\* The states that may follow a state in one step.
C15_Successors(state) ==
  CASE state = "NotStarted" -> {"NotStarted", "Resolving"}
    [] state = "Resolving" -> {"Connecting", "Closed"}
    [] state = "Connecting" ->
         {IF flavor = "ssl" THEN "Handshaking" ELSE "WritingRequest",
          "Closed"}
    [] state = "Handshaking" -> {"WritingRequest", "Closed"}
    [] state = "WritingRequest" ->
         {"WritingRequest", "ReadingStatusLine", "Closed"}
    [] state = "ReadingStatusLine" -> {"ReadingHeaders", "Closed"}
    [] state = "ReadingHeaders" ->
         {"RedirectDetected", "DeliveringBody", "Closed"}
    [] state = "DeliveringBody" -> {"DeliveringBody", "Closed"}
    [] state = "RedirectDetected" -> {"RedirectDetected"}
    [] state = "Closed" -> {"Closed"}

\* Some byte of the request has been offered to the socket.
C15_RequestOffered ==
  \/ "write" \in pending
  \/ "write" \in failure
  \/ started /\ (request_header_buf = <<>>
                  \/ request_header_buf[1].kind # "request")

\* The handshake has completed without error.
C15_HandshakeSucceeded ==
  /\ chain_valid # <<>>
  /\ "handshake" \notin pending
  /\ "handshake" \notin failure

\* The header handler has built a response from the parsed header block.
C15_HeadersParsed ==
  /\ "read_headers" \notin pending
  /\ responses # <<>> \/ response_ # <<>>

\* C15: the request passes through its states only in the order Resolving,
\* Connecting, Handshaking (TLS flavor), WritingRequest, ReadingStatusLine,
\* ReadingHeaders, then RedirectDetected or DeliveringBody; on the TLS flavor
\* no request byte is offered before the handshake succeeded, on the plain
\* flavor there is no handshake, headers are read only behind a parsed
\* status line, and a body byte is delivered only behind parsed headers.
C15_StateOrder ==
  /\ [][C15_State' \in C15_Successors(C15_State)]_vars
  /\ []((flavor = "ssl" /\ C15_RequestOffered) => C15_HandshakeSucceeded)
  /\ [](flavor = "nonssl"
          => /\ "handshake" \notin pending \cup failure
             /\ chain_valid = <<>>)
  /\ []((C15_State \in {"ReadingHeaders", "RedirectDetected",
                         "DeliveringBody"} \/ responses # <<>>)
          => Take(http_version, 5) = <<"H", "T", "T", "P", "/">>)
  /\ []((sink # <<>> \/ vmo.exists) => C15_HeadersParsed)

\* C15 witness: on the TLS flavor the request went through every state up
\* to the delivery of a streamed body.
C15_Witness ==
  /\ flavor = "ssl"
  /\ C15_State = "DeliveringBody"
  /\ C15_HandshakeSucceeded
  /\ block # <<>>
  /\ Len(sink) >= 2


\* b is what is left of a when its first elements are taken away.
C16_IsSuffix(b, a) ==
  Len(b) <= Len(a) /\ b = SubSeq(a, Len(a) - Len(b) + 1, Len(a))

\* C16: a write completion that transferred t bytes takes min(remaining
\* header, t) from the front of the header buffer and the rest of t from
\* the front of the body buffer, so the body is touched only once the
\* header is empty; the buffers offered next are the non-empty ones, header
\* first, and the status-line read is issued exactly when both are empty.
C16_WriteProgress ==
  [][("write" \in pending /\ failure' = failure)
       => LET t == (Len(request_header_buf) + Len(request_body_buf))
                   - (Len(request_header_buf') + Len(request_body_buf'))
              rest == (request_header_buf' # <<>>)
                      \/ (request_body_buf' # <<>>)
          IN /\ t >= 1
             /\ C16_IsSuffix(request_header_buf', request_header_buf)
             /\ C16_IsSuffix(request_body_buf', request_body_buf)
             /\ Len(request_header_buf) - Len(request_header_buf')
                  = Min(Len(request_header_buf), t)
             /\ (request_body_buf' # request_body_buf)
                  => request_header_buf' = <<>>
             /\ request_bufs' =
                  (IF request_header_buf' # <<>> THEN <<"header">> ELSE <<>>)
                  \o (IF request_body_buf' # <<>> THEN <<"body">> ELSE <<>>)
             /\ pending' = IF rest THEN {"write"} ELSE {"read_status"}
             /\ errors' = errors]_vars

\* C16 witness: a write took the header block and the first of two body
\* bytes, and the rest of the body is offered again.
C16_Witness ==
  /\ pending = {"write"}
  /\ request_bufs = <<"body">>
  /\ request_header_buf = <<>>
  /\ request_body_buf = <<2>>


\* The words of a text: its longest runs of characters that are not white
\* space.
RECURSIVE C17_Words(_, _)
C17_Words(s, word) ==
  IF s = <<>> THEN (IF word = <<>> THEN <<>> ELSE <<word>>)
  ELSE IF Head(s) \in {" ", "\r", "\n", "\t"}
  THEN (IF word = <<>> THEN <<>> ELSE <<word>>) \o C17_Words(Tail(s), <<>>)
  ELSE C17_Words(Tail(s), Append(word, Head(s)))

\* A status line whose first word starts with "HTTP/" and whose second word
\* is a decimal number.
C17_WellFormed(line) ==
  LET words == C17_Words(line, <<>>)
  IN /\ Len(words) >= 2
     /\ Len(words[1]) >= 5
     /\ SubSeq(words[1], 1, 5) = <<"H", "T", "T", "P", "/">>
     /\ \A i \in 1..Len(words[2]) :
          words[2][i] \in {"0", "1", "2", "3", "4", "5", "6", "7", "8", "9"}

\* C17: once a status line has been handled, if its version does not start
\* with "HTTP/" or its status code is not a decimal number the one error
\* InvalidResponse is reported and no header read is issued; otherwise no
\* error is reported, whatever the number, and the header read is issued.
C17_StatusLine ==
  (first_line # <<>>)
    => IF C17_WellFormed(first_line)
       THEN errors = <<>> /\ pending = {"read_headers"}
       ELSE errors = <<"NETWORK_ERR_INVALID_RESPONSE">> /\ pending = {}


\* C18: once the sink has answered a write with peer-closed, no error has
\* been delivered, the producer end is released, no read is in flight and
\* the copy loop is left; and no step follows: no read is issued and no
\* write to the sink is attempted after it.
C18_PeerClosedSilent ==
  /\ [](peer_closed
         => /\ errors = <<>>
            /\ response_body_stream = "reset"
            /\ pending = {}
            /\ pc = "idle")
  /\ [][~peer_closed]_vars

\* C18 witness: the sink took part of the body received and answered
\* peer-closed to the next chunk.
C18_Witness ==
  /\ peer_closed
  /\ sink # <<>>
  /\ Len(sink) < received
  /\ Len(responses) = 1
  /\ response_body_stream = "reset"


\* C19: in streamed mode every pass of the copy loop that drains the
\* buffered bytes is followed by a read for at least one byte; with a peer
\* that closes in the end and a sink that becomes writable after each
\* would-block, an open producer end is released in the end, with nothing
\* in flight, and no step follows its release.
C19_StreamEnds ==
  /\ [][(pc = "stream_loop" /\ pc' = "idle"
         /\ response_body_stream' = "open")
        => pending' = {"read_body_stream"}]_vars
  /\ (response_body_stream = "open")
       ~> (response_body_stream = "reset" /\ pending = {} /\ pc = "idle")
  /\ [][response_body_stream # "reset"]_vars

\* C19 witness: the peer closed after the last body byte, every byte count
\* received went to the sink over several reads, and the producer end is
\* released.
C19_Witness ==
  /\ response_body_stream = "reset"
  /\ body_eof
  /\ received = MaxBody
  /\ Len(sink) = MaxBody
  /\ sink_at_response = 0
  /\ pending = {}


\* The text of a line before its first colon, or the line when it has none.
RECURSIVE C20_BeforeColon(_)
C20_BeforeColon(s) ==
  IF s = <<>> \/ Head(s) = ":" THEN <<>>
  ELSE <<Head(s)>> \o C20_BeforeColon(Tail(s))

\* The text of a line behind its first colon, or nothing when it has none.
RECURSIVE C20_AfterColon(_)
C20_AfterColon(s) ==
  IF s = <<>> THEN <<>>
  ELSE IF Head(s) = ":" THEN Tail(s)
  ELSE C20_AfterColon(Tail(s))

\* The headers of the response built from the parsed block.
C20_Parsed ==
  IF responses # <<>> THEN responses[1].headers
  ELSE IF response_ # <<>> THEN response_[1].headers
  ELSE <<>>

\* C20: the handling of a header line never leaves the line (the process
\* does not die in it), and the field it yields has for name the text
\* before the first colon, or the full line when there is no colon, and
\* for value the text behind that colon without its leading blanks and up
\* to the first carriage return, empty when there is no colon.
C20_HeaderField ==
  /\ ~crashed
  /\ (Len(block) = 1 /\ (responses # <<>> \/ response_ # <<>>))
       => C20_Parsed =
            << <<C20_BeforeColon(block[1]),
                 C6_UpToCR(C6_StripBlanks(C20_AfterColon(block[1])))>> >>


\* C21: in both copy loops the bytes stored at the destination (the vmo of
\* the buffered mode, the sink of the streamed mode) are, in order and
\* without gap, the first body bytes received from the socket, also when a
\* write accepted fewer bytes than the chunk it was offered.
C21_DestinationInOrder ==
  /\ IsPrefix(vmo.data, Bytes(1, received))
  /\ IsPrefix(sink, Bytes(1, received))


=============================================================================
